---- MODULE Spec2Model ----
(***************************************************************************)
(* ThreatFox ETL connector (src/etl_connector.py): the transform-and-load  *)
(* pipeline of ThreatFoxETLConnector and main(), modelled as a state       *)
(* machine.                                                                *)
(*                                                                         *)
(* Text is a sequence of one-character strings, so that str.lower(),       *)
(* str.strip() and the substring test `kw in text` are computed as Python  *)
(* computes them.  A JSON value of a raw record is a tagged record         *)
(* [t, s, n, m]: t is its JSON type, s its text (or list items), n and m   *)
(* its numbers.                                                            *)
(***************************************************************************)
EXTENDS Integers, Sequences, FiniteSets, TLC

(* ------------------------------ bounds --------------------------------- *)

\* longest raw batch (feed array, transform_data argument)
MaxBatch == 2
\* the clock runs 0..MaxClock
MaxClock == 1
\* a classification text is the concatenation of at most MaxTokens tokens
MaxTokens == 2
\* confidence levels tried are -1..MaxConfidence
MaxConfidence == 101

(* ------------------------- program constants --------------------------- *)

HighConfidence == 75
MediumHighConfidence == 50
MediumConfidence == 25
\* the status extract_data retries on
TooManyRequests == 429
\* response.raise_for_status() raises from this status on
ErrorStatus == 400

(* ------------------------------- text ---------------------------------- *)

UpperCase ==
  <<"A","B","C","D","E","F","G","H","I","J","K","L","M",
    "N","O","P","Q","R","S","T","U","V","W","X","Y","Z">>

LowerCase ==
  <<"a","b","c","d","e","f","g","h","i","j","k","l","m",
    "n","o","p","q","r","s","t","u","v","w","x","y","z">>

\* str.lower() on one character
LowerChar(c) ==
  IF \E i \in 1..26 : UpperCase[i] = c
  THEN LowerCase[CHOOSE i \in 1..26 : UpperCase[i] = c]
  ELSE c

\* str.lower()
Lower(text) == [i \in 1..Len(text) |-> LowerChar(text[i])]

\* Python's `kw in text` for strings
Contains(text, kw) ==
  \E i \in 1..(Len(text) - Len(kw) + 1) : SubSeq(text, i, i + Len(kw) - 1) = kw

IsSpace(c) == c \in {" ", "\t", "\n"}

\* str.strip(): leading and trailing whitespace removed
Strip(text) ==
  IF \A i \in 1..Len(text) : IsSpace(text[i])
  THEN <<>>
  ELSE LET lo == CHOOSE i \in 1..Len(text) :
                   /\ ~IsSpace(text[i])
                   /\ \A j \in 1..(i - 1) : IsSpace(text[j])
           hi == CHOOSE i \in 1..Len(text) :
                   /\ ~IsSpace(text[i])
                   /\ \A j \in (i + 1)..Len(text) : IsSpace(text[j])
       IN SubSeq(text, lo, hi)

(* --------------------- classification (lines 294-319) ------------------ *)

SeverityKeywords ==
  << <<"b","o","t","n","e","t">>,
     <<"r","a","n","s","o","m","w","a","r","e">>,
     <<"t","r","o","j","a","n">> >>

\* any(keyword in threat_type.lower() for keyword in [...])
HasSeverityKeyword(threat_type) ==
  \E k \in 1..Len(SeverityKeywords) : Contains(Lower(threat_type), SeverityKeywords[k])

\* a mutant: the malware name is consulted as well as the threat type
SeverityUsingMalware(confidence, threat_type, malware) ==
  IF confidence >= HighConfidence THEN "HIGH"
  ELSE IF confidence >= MediumHighConfidence
       THEN IF HasSeverityKeyword(threat_type) \/ HasSeverityKeyword(malware)
            THEN "HIGH" ELSE "MEDIUM"
  ELSE IF confidence >= MediumConfidence THEN "MEDIUM"
  ELSE "LOW"

\* _calculate_threat_severity(confidence, threat_type, malware)
CalculateThreatSeverity(confidence, threat_type, malware) ==
  IF confidence >= HighConfidence THEN "HIGH"
  ELSE IF confidence >= MediumHighConfidence
       THEN IF HasSeverityKeyword(threat_type) THEN "HIGH" ELSE "MEDIUM"
  ELSE IF confidence >= MediumConfidence THEN "MEDIUM"
  ELSE "LOW"

\* a mutant: the ip rule is tried after the file rule
CategorizeFileBeforeIp(ioc_type) ==
  LET ioc_lower == Lower(ioc_type) IN
  IF Contains(ioc_lower, <<"d","o","m","a","i","n">>) \/ Contains(ioc_lower, <<"u","r","l">>)
  THEN "NETWORK"
  ELSE IF \/ Contains(ioc_lower, <<"h","a","s","h">>)
          \/ Contains(ioc_lower, <<"m","d","5">>)
          \/ Contains(ioc_lower, <<"s","h","a">>)
  THEN "FILE"
  ELSE IF Contains(ioc_lower, <<"i","p">>) THEN "NETWORK"
  ELSE IF Contains(ioc_lower, <<"e","m","a","i","l">>) THEN "EMAIL"
  ELSE "OTHER"

\* _categorize_ioc_type(ioc_type)
CategorizeIocType(ioc_type) ==
  LET ioc_lower == Lower(ioc_type) IN
  IF Contains(ioc_lower, <<"d","o","m","a","i","n">>) \/ Contains(ioc_lower, <<"u","r","l">>)
  THEN "NETWORK"
  ELSE IF Contains(ioc_lower, <<"i","p">>) THEN "NETWORK"
  ELSE IF \/ Contains(ioc_lower, <<"h","a","s","h">>)
          \/ Contains(ioc_lower, <<"m","d","5">>)
          \/ Contains(ioc_lower, <<"s","h","a">>)
  THEN "FILE"
  ELSE IF Contains(ioc_lower, <<"e","m","a","i","l">>) THEN "EMAIL"
  ELSE "OTHER"

(* --------------------------- JSON values ------------------------------- *)

Absent == [t |-> "absent", s |-> <<>>, n |-> 0, m |-> 0]
Null == [t |-> "null", s |-> <<>>, n |-> 0, m |-> 0]
Str(text) == [t |-> "str", s |-> text, n |-> 0, m |-> 0]
Num(k) == [t |-> "int", s |-> <<>>, n |-> k, m |-> 0]
List(items) == [t |-> "list", s |-> items, n |-> 0, m |-> 0]
\* the extraction_metadata object: extracted_at, total_records_in_batch
Meta(extracted_at, total) == [t |-> "dict", s |-> <<>>, n |-> extracted_at, m |-> total]

\* Python truthiness of a value (`if not date_str`, `bool(...)`)
Truthy(v) ==
  CASE v.t = "str" -> v.s # <<>>
    [] v.t = "list" -> v.s # <<>>
    [] v.t = "int" -> v.n # 0
    [] v.t = "dict" -> TRUE
    [] v.t = "datetime" -> TRUE
    [] OTHER -> FALSE

Unknown == Str(<<"u","n","k","n","o","w","n">>)
EmptyStr == Str(<<>>)

(* --------------------------- raw records ------------------------------- *)

\* the string fields transform_data calls .strip() on (lines 193-205)
StripFields ==
  {"ioc_value", "ioc_type", "threat_type", "malware", "malware_alias",
   "malware_printable", "reference", "reporter"}

RawFields ==
  StripFields \cup
  {"id", "ioc_id", "first_seen", "last_seen", "confidence_level", "tags",
   "extraction_metadata"}

\* the raw record {} : every field absent
EmptyRaw == [f \in RawFields |-> Absent]

\* dict.get(key, default)
Get(record, key, default) ==
  IF record[key].t = "absent" THEN default ELSE record[key]

(* ------------- _calculate_threat_quality (lines 235-264) --------------- *)

\* total_checks
TotalChecks == 7
\* round(score, 2) keeps hundredths: a score is held as its number of hundredths
ScoreScale == 100

\* the fields whose check is `if threat.get(field)` (lines 249-260), in order
QualityFields ==
  <<"id", "ioc_value", "ioc_type", "threat_type", "malware", "first_seen">>

\* the integer nearest to numerator / denominator, a tie going to the even one
\* (Python's round)
RoundHalfEven(numerator, denominator) ==
  LET q == numerator \div denominator
      r == numerator % denominator
  IN IF 2 * r < denominator THEN q
     ELSE IF 2 * r > denominator THEN q + 1
     ELSE IF q % 2 = 0 THEN q ELSE q + 1

\* `threat.get('confidence_level', 0) > 0` raises a TypeError on a value that
\* is no number
QualityRaises(threat) == Get(threat, "confidence_level", Num(0)).t # "int"

\* the number of `score += 1/total_checks` executed
ChecksPassed(threat) ==
  Cardinality({ i \in 1..Len(QualityFields) : Truthy(threat[QualityFields[i]]) })
    + (IF Get(threat, "confidence_level", Num(0)).n > 0 THEN 1 ELSE 0)

\* a mutant: the score is cut to two decimals instead of rounded
QualityTruncated(threat) ==
  (ScoreScale * ChecksPassed(threat)) \div TotalChecks

\* _calculate_threat_quality(threat), in hundredths, for a record it does not
\* raise on.  The float sum of k terms 1/7 is within 1e-15 of k/7, and no k/7
\* is that close to the middle of two hundredths, so that round(score, 2) is
\* the rounding of k/7.
CalculateThreatQuality(threat) ==
  RoundHalfEven(ScoreScale * ChecksPassed(threat), TotalChecks)

(* ------------------- dates (lines 266-292, 329-347) -------------------- *)

DigitChars == <<"0","1","2","3","4","5","6","7","8","9">>

IsDigit(c) == \E i \in 1..Len(DigitChars) : DigitChars[i] = c

\* int() of one digit
DigitValue(c) == (CHOOSE i \in 1..Len(DigitChars) : DigitChars[i] = c) - 1

\* the character at a position, "" past the end
CharAt(text, p) == IF p \in 1..Len(text) THEN text[p] ELSE ""

\* the two characters are one of the two-character alternatives of the
\* directive's pattern in strptime: m is 1[0-2]|0[1-9], d is
\* 3[0-1]|[1-2]\d|0[1-9]| [1-9], H is 2[0-3]|[0-1]\d, M is [0-5]\d,
\* S is 6[0-1]|[0-5]\d
TwoChars(directive, a, b) ==
  CASE directive = "m" ->
         \/ a = "1" /\ b \in {"0", "1", "2"}
         \/ a = "0" /\ IsDigit(b) /\ b # "0"
    [] directive = "d" ->
         \/ a = "3" /\ b \in {"0", "1"}
         \/ a \in {"1", "2"} /\ IsDigit(b)
         \/ a \in {"0", " "} /\ IsDigit(b) /\ b # "0"
    [] directive = "H" ->
         \/ a = "2" /\ b \in {"0", "1", "2", "3"}
         \/ a \in {"0", "1"} /\ IsDigit(b)
    [] directive = "M" ->
         a \in {"0", "1", "2", "3", "4", "5"} /\ IsDigit(b)
    [] OTHER ->
         \/ a = "6" /\ b \in {"0", "1"}
         \/ a \in {"0", "1", "2", "3", "4", "5"} /\ IsDigit(b)

\* the character is the one-character alternative: [1-9] for m and d, \d for
\* H, M and S
OneChar(directive, a) ==
  IsDigit(a) /\ (directive \in {"m", "d"} => a # "0")

\* the directive matched at position p, alternatives tried in the pattern's
\* order: whether it matched, its number, the position after it
MatchDirective(text, p, directive) ==
  LET a == CharAt(text, p)
      b == CharAt(text, p + 1)
  IN IF TwoChars(directive, a, b)
     THEN [ok |-> TRUE,
           value |-> (IF a = " " THEN 0 ELSE 10 * DigitValue(a)) + DigitValue(b),
           next |-> p + 2]
     ELSE IF OneChar(directive, a)
     THEN [ok |-> TRUE, value |-> DigitValue(a), next |-> p + 1]
     ELSE [ok |-> FALSE, value |-> 0, next |-> p]

\* %Y, the pattern \d\d\d\d, at the start of the text
MatchYear(text) ==
  IF \A i \in 1..4 : IsDigit(CharAt(text, i))
  THEN [ok |-> TRUE,
        value |-> 1000 * DigitValue(text[1]) + 100 * DigitValue(text[2])
                    + 10 * DigitValue(text[3]) + DigitValue(text[4]),
        next |-> 5]
  ELSE [ok |-> FALSE, value |-> 0, next |-> 1]

\* the position after the whitespace from p on (the pattern \s+ of a blank of
\* the format; it matched when the position moved)
RECURSIVE SkipSpace(_, _)
SkipSpace(text, p) ==
  IF IsSpace(CharAt(text, p)) THEN SkipSpace(text, p + 1) ELSE p

IsLeap(year) == year % 4 = 0 /\ (year % 100 # 0 \/ year % 400 = 0)

DaysInMonth(year, month) ==
  IF month = 2 THEN (IF IsLeap(year) THEN 29 ELSE 28)
  ELSE IF month \in {4, 6, 9, 11} THEN 30 ELSE 31

\* the days of the year before the first of the month
RECURSIVE DaysBeforeMonth(_, _)
DaysBeforeMonth(year, month) ==
  IF month = 1 THEN 0
  ELSE DaysBeforeMonth(year, month - 1) + DaysInMonth(year, month - 1)

\* date.toordinal(): the day number, 0001-01-01 being day 1
Ordinal(year, month, day) ==
  LET before == year - 1 IN
  365 * before + (before \div 4) - (before \div 100) + (before \div 400)
    + DaysBeforeMonth(year, month) + day

SecondsPerDay == 86400

\* a datetime value: its day number and the second of the day
Datetime(year, month, day, hour, minute, second) ==
  [t |-> "datetime", s |-> <<>>, n |-> Ordinal(year, month, day),
   m |-> 3600 * hour + 60 * minute + second]

\* datetime(...) raises a ValueError
NoSuchDatetime(year, month, day, second) ==
  \/ year < 1
  \/ day > DaysInMonth(year, month)
  \/ second > 59

\* what a strptime call that raises ValueError gives here
ValueError == [t |-> "ValueError", s |-> <<>>, n |-> 0, m |-> 0]

\* the fields %Y-%m-%d matched at the start of the text
MatchDate(text) ==
  LET year == MatchYear(text)
      month == MatchDirective(text, 6, "m")
      day == MatchDirective(text, month.next + 1, "d")
  IN [ok |-> /\ year.ok
             /\ CharAt(text, 5) = "-"
             /\ month.ok
             /\ CharAt(text, month.next) = "-"
             /\ day.ok,
      year |-> year.value, month |-> month.value, day |-> day.value,
      next |-> day.next]

\* datetime.strptime(date_str, '%Y-%m-%d'): the text after the match is
\* "unconverted data"
StrptimeDate(text) ==
  LET date == MatchDate(text) IN
  IF ~date.ok \/ date.next # Len(text) + 1 THEN ValueError
  ELSE IF NoSuchDatetime(date.year, date.month, date.day, 0) THEN ValueError
  ELSE Datetime(date.year, date.month, date.day, 0, 0, 0)

\* datetime.strptime(date_str, '%Y-%m-%d %H:%M:%S')
StrptimeDateTime(text) ==
  LET date == MatchDate(text)
      blank == SkipSpace(text, date.next)
      hour == MatchDirective(text, blank, "H")
      minute == MatchDirective(text, hour.next + 1, "M")
      second == MatchDirective(text, minute.next + 1, "S")
  IN IF ~date.ok \/ blank = date.next THEN ValueError
     ELSE IF \/ ~hour.ok
             \/ CharAt(text, hour.next) # ":"
             \/ ~minute.ok
             \/ CharAt(text, minute.next) # ":"
             \/ ~second.ok
             \/ second.next # Len(text) + 1
     THEN ValueError
     ELSE IF NoSuchDatetime(date.year, date.month, date.day, second.value) THEN ValueError
     ELSE Datetime(date.year, date.month, date.day, hour.value, minute.value, second.value)

\* a mutant: the text after the date is not looked at
ParseDatePrefix(date_str) ==
  IF ~Truthy(date_str) THEN Null
  ELSE IF StrptimeDateTime(date_str.s) # ValueError THEN StrptimeDateTime(date_str.s)
  ELSE LET date == MatchDate(date_str.s) IN
       IF ~date.ok \/ NoSuchDatetime(date.year, date.month, date.day, 0) THEN Null
       ELSE Datetime(date.year, date.month, date.day, 0, 0, 0)

\* _parse_threatfox_date(date_str), for a value it does not raise on
ParseThreatfoxDate(date_str) ==
  IF ~Truthy(date_str) THEN Null
  ELSE IF StrptimeDateTime(date_str.s) # ValueError THEN StrptimeDateTime(date_str.s)
  ELSE IF StrptimeDate(date_str.s) # ValueError THEN StrptimeDate(date_str.s)
  ELSE Null

\* the day the clock starts at
ClockStart == Datetime(2024, 3, 10, 0, 0, 0)

\* datetime.now() at time `at` of the clock, which counts days; the clock
\* reads of one transform_data call fall at the same time
DatetimeNow(at) == [ClockStart EXCEPT !.n = ClockStart.n + at]

\* datetime - timedelta(days=days)
DaysBefore(datetime, days) == [datetime EXCEPT !.n = datetime.n - days]

\* datetime > other
Later(datetime, other) ==
  \/ datetime.n > other.n
  \/ datetime.n = other.n /\ datetime.m > other.m

RecentDays == 30
ActiveDays == 7
NewDays == 7
RecentAgeDays == 30
ModerateDays == 90

\* _is_recent_threat(first_seen) at time `at`
IsRecentThreat(first_seen, at) ==
  IF ~Truthy(first_seen) THEN FALSE
  ELSE Later(first_seen, DaysBefore(DatetimeNow(at), RecentDays))

\* _is_active_threat(last_seen) at time `at`
IsActiveThreat(last_seen, at) ==
  IF ~Truthy(last_seen) THEN FALSE
  ELSE Later(last_seen, DaysBefore(DatetimeNow(at), ActiveDays))

\* (datetime.now() - date_obj).days: whole days, rounded down
DaysBetween(date_obj, at) ==
  (DatetimeNow(at).n - date_obj.n)
    + ((DatetimeNow(at).m - date_obj.m) \div SecondsPerDay)

\* _days_since_date(date_obj) at time `at`
DaysSinceDate(date_obj, at) ==
  IF ~Truthy(date_obj) THEN Null ELSE Num(DaysBetween(date_obj, at))

\* _categorize_threat_age(first_seen) at time `at`
CategorizeThreatAge(first_seen, at) ==
  IF ~Truthy(first_seen) THEN "Unknown"
  ELSE IF DaysBetween(first_seen, at) <= NewDays THEN "New"
  ELSE IF DaysBetween(first_seen, at) <= RecentAgeDays THEN "Recent"
  ELSE IF DaysBetween(first_seen, at) <= ModerateDays THEN "Moderate"
  ELSE "Old"

(* --------------- _clean_malware_name (lines 321-327) ------------------- *)

\* str.upper() on one character
UpperChar(c) ==
  IF \E i \in 1..26 : LowerCase[i] = c
  THEN UpperCase[CHOOSE i \in 1..26 : LowerCase[i] = c]
  ELSE c

\* the character is a letter
IsCased(c) == \E i \in 1..26 : LowerCase[i] = c \/ UpperCase[i] = c

\* str.title(): a letter is upper case after a character that is no letter and
\* lower case after a letter
Title(text) ==
  [ i \in 1..Len(text) |->
      IF i > 1 /\ IsCased(text[i - 1]) THEN LowerChar(text[i]) ELSE UpperChar(text[i]) ]

\* str.replace(old, ''): the occurrences of old are taken out, left to right
RECURSIVE Remove(_, _)
Remove(text, old) ==
  IF Len(text) < Len(old) THEN text
  ELSE IF SubSeq(text, 1, Len(old)) = old
       THEN Remove(SubSeq(text, Len(old) + 1, Len(text)), old)
       ELSE <<Head(text)>> \o Remove(Tail(text), old)

\* _clean_malware_name(malware_name), a string; the result as a JSON string
CleanMalwareName(malware_name) ==
  LET cleaned == Remove(Remove(Strip(malware_name), <<"w","i","n","3","2",":">>),
                        <<"t","r","o","j","a","n",":">>)
  IN IF malware_name = <<>> \/ cleaned = <<>>
     THEN Str(<<"U","n","k","n","o","w","n">>)
     ELSE Str(Title(cleaned))

(* ---------------------- transform_data (lines 135-233) ----------------- *)

\* _parse_threatfox_date raises (strptime's TypeError is no ValueError) on a
\* truthy value that is no string
ParseDateRaises(date_str) == Truthy(date_str) /\ date_str.t # "str"

\* _calculate_threat_severity raises: `confidence >= 75` on a non-number, or
\* threat_type.lower() on a non-string in the band that reads it
SeverityRaises(confidence, threat_type) ==
  \/ confidence.t # "int"
  \/ /\ confidence.n < HighConfidence
     /\ confidence.n >= MediumHighConfidence
     /\ threat_type.t # "str"

\* the item of the batch is a JSON object (a dict)
IsObject(item) == DOMAIN item = RawFields

\* the derivation of one record raises (the try block of lines 149-226): an
\* item that is no dict has no .get
DerivationRaises(threat_record) ==
  \/ ~IsObject(threat_record)
  \/ ParseDateRaises(Get(threat_record, "first_seen", EmptyStr))
  \/ ParseDateRaises(Get(threat_record, "last_seen", EmptyStr))
  \/ SeverityRaises(Get(threat_record, "confidence_level", Num(0)),
                    Get(threat_record, "threat_type", EmptyStr))
  \/ Get(threat_record, "ioc_type", EmptyStr).t # "str"
  \/ QualityRaises(threat_record)
  \/ \E f \in StripFields : Get(threat_record, f, EmptyStr).t # "str"
  \/ Get(threat_record, "extraction_metadata", Meta(0, 0)).t # "dict"

\* transformed_record (lines 177-224), for a record whose derivation does not raise
TransformedRecord(threat_record, current_timestamp) ==
  LET threat_type == Get(threat_record, "threat_type", EmptyStr)
      malware == Get(threat_record, "malware", EmptyStr)
      confidence_level == Get(threat_record, "confidence_level", Num(0))
      reference == Get(threat_record, "reference", EmptyStr)
      tags == Get(threat_record, "tags", List(<<>>))
      meta == threat_record["extraction_metadata"]
      first_seen_parsed == ParseThreatfoxDate(Get(threat_record, "first_seen", EmptyStr))
      last_seen_parsed == ParseThreatfoxDate(Get(threat_record, "last_seen", EmptyStr))
  IN [ original_data |-> threat_record,
       ingestion_timestamp |-> current_timestamp,
       source |-> "threatfox_json",
       version |-> "1.0",
       record_id |-> Get(threat_record, "id", Unknown),
       data_quality_score |-> CalculateThreatQuality(threat_record),
       threat_id |-> Get(threat_record, "id", Unknown),
       ioc_id |-> Get(threat_record, "ioc_id", Unknown),
       ioc_value |-> Strip(Get(threat_record, "ioc_value", EmptyStr).s),
       ioc_type |-> Strip(Get(threat_record, "ioc_type", EmptyStr).s),
       threat_type |-> Strip(threat_type.s),
       malware |-> Strip(malware.s),
       malware_alias |-> Strip(Get(threat_record, "malware_alias", EmptyStr).s),
       malware_printable |-> Strip(Get(threat_record, "malware_printable", EmptyStr).s),
       first_seen |-> Get(threat_record, "first_seen", EmptyStr),
       last_seen |-> Get(threat_record, "last_seen", EmptyStr),
       first_seen_parsed |-> first_seen_parsed,
       last_seen_parsed |-> last_seen_parsed,
       confidence_level |-> confidence_level.n,
       reference |-> Strip(reference.s),
       reporter |-> Strip(Get(threat_record, "reporter", EmptyStr).s),
       tags |-> IF tags.t = "list" THEN tags.s ELSE <<>>,
       threat_severity |->
         CalculateThreatSeverity(confidence_level.n, threat_type.s, malware.s),
       ioc_category |-> CategorizeIocType(Get(threat_record, "ioc_type", EmptyStr).s),
       tag_count |-> IF tags.t = "list" THEN Len(tags.s) ELSE 0,
       is_recent_threat |-> IsRecentThreat(first_seen_parsed, current_timestamp),
       is_active_threat |-> IsActiveThreat(last_seen_parsed, current_timestamp),
       has_reference |-> Strip(reference.s) # <<>>,
       malware_family_clean |->
         CleanMalwareName(IF Get(threat_record, "malware_printable", EmptyStr).s # <<>>
                          THEN Get(threat_record, "malware_printable", EmptyStr).s
                          ELSE malware.s),
       days_since_first_seen |-> DaysSinceDate(first_seen_parsed, current_timestamp),
       days_since_last_seen |-> DaysSinceDate(last_seen_parsed, current_timestamp),
       threat_age_category |-> CategorizeThreatAge(first_seen_parsed, current_timestamp),
       extraction_timestamp |-> IF meta.t = "dict" THEN meta.n ELSE -1,
       source_url |-> IF meta.t = "dict" THEN "url" ELSE "None",
       batch_size |-> IF meta.t = "dict" THEN meta.m ELSE -1 ]

\* a mutant: the loop of transform_data stops at the first record that raises
\* (break instead of continue)
RECURSIVE TransformDataBreak(_, _)
TransformDataBreak(raw_data, current_timestamp) ==
  IF raw_data = <<>> THEN <<>>
  ELSE IF DerivationRaises(Head(raw_data)) THEN <<>>
  ELSE <<TransformedRecord(Head(raw_data), current_timestamp)>>
         \o TransformDataBreak(Tail(raw_data), current_timestamp)

\* the loop of transform_data, from a given record on: the documents appended
RECURSIVE TransformLoop(_, _, _)
TransformLoop(raw_data, i, current_timestamp) ==
  IF i > Len(raw_data) THEN <<>>
  ELSE IF DerivationRaises(raw_data[i])
       THEN TransformLoop(raw_data, i + 1, current_timestamp)
       ELSE <<TransformedRecord(raw_data[i], current_timestamp)>>
              \o TransformLoop(raw_data, i + 1, current_timestamp)

\* transform_data(raw_data), current_timestamp being datetime.now() at its start
TransformData(raw_data, current_timestamp) ==
  TransformLoop(raw_data, 1, current_timestamp)

(* ------------------------------ inputs --------------------------------- *)

\* the raw records loaded: the identifier absent or "t1"; the IOC value absent,
\* a string to trim or null
RawSamples ==
  { [EmptyRaw EXCEPT !["id"] = i, !["ioc_value"] = v] :
      i \in {Absent, Str(<<"t","1">>)},
      v \in {Absent, Str(<<" ","a">>), Null} }

\* first_seen strings tried: dates in both formats (the second 30 days before
\* the clock's start), a date without leading zeros, and four strings strptime
\* rejects
FirstSeenTexts ==
  { <<"2","0","2","4","-","0","3","-","0","5"," ","1","2",":","3","0",":","4","5">>,
    <<"2","0","2","4","-","0","2","-","0","9">>,
    <<"2","0","2","4","-","1","-","5">>,
    <<"n","/","a">>,
    <<"2","0","2","4","-","0","2","-","3","0">>,
    <<"2","0","2","4","-","0","1","-","1","5","T","1","2",":","3","0",":","4","5">>,
    <<"2","0","2","4","-","0","1","-","1","5"," ">> }

\* raw records with a first_seen string; two of them with another field: a
\* last_seen six days before the clock's start, or a null IOC value
DatedSamples ==
  { [EmptyRaw EXCEPT !["first_seen"] = Str(text)] : text \in FirstSeenTexts } \cup
  { [EmptyRaw EXCEPT !["first_seen"] = Str(<<"n","/","a">>),
                     !["last_seen"] = Str(<<"2","0","2","4","-","0","3","-","0","4">>)],
    [EmptyRaw EXCEPT !["first_seen"] = Str(<<"n","/","a">>),
                     !["ioc_value"] = Null] }

\* the raw records transformed: those, the dated ones, records with one field
\* of a type the feed does not promise, and an item that is a string
TransformSamples ==
  RawSamples \cup DatedSamples \cup
  { [EmptyRaw EXCEPT !["ioc_value"] = Num(7)],
    [EmptyRaw EXCEPT !["malware_alias"] = Null],
    [EmptyRaw EXCEPT !["first_seen"] = Null],
    [EmptyRaw EXCEPT !["first_seen"] = Num(20240115)],
    [EmptyRaw EXCEPT !["confidence_level"] = Null],
    [EmptyRaw EXCEPT !["confidence_level"] = Num(60), !["threat_type"] = Str(<<"b","o","t","n","e","t">>)],
    [EmptyRaw EXCEPT !["tags"] = Null],
    [EmptyRaw EXCEPT !["tags"] = List(<<"exe">>), !["reference"] = Str(<<" ">>)],
    [EmptyRaw EXCEPT !["extraction_metadata"] = Null],
    Str(<<"t","1">>) }

\* sequences over S of length at most n
SeqsUpTo(S, n) == UNION { [1..k -> S] : k \in 0..n }

RawBatches == SeqsUpTo(RawSamples, MaxBatch)

TransformBatches == SeqsUpTo(TransformSamples, MaxBatch)

\* the concatenation of a sequence of texts
RECURSIVE Concat(_)
Concat(texts) == IF texts = <<>> THEN <<>> ELSE Head(texts) \o Concat(Tail(texts))

\* the texts made of at most MaxTokens of the tokens
Texts(tokens) == { Concat(ts) : ts \in SeqsUpTo(tokens, MaxTokens) }

\* threat types tried: feed tags, keywords in other cases, halves of a keyword
ThreatTypeTokens ==
  { <<"b","o","t","n","e","t","_","c","c">>,
    <<"R","a","n","s","o","m","w","a","r","e">>,
    <<"T","R","O","J","A","N">>,
    <<"p","a","y","l","o","a","d">>,
    <<"b","o","t">>,
    <<"N","e","t">>,
    <<" ">> }

\* malware names tried
MalwareNames ==
  { <<>>, <<"w","i","n",".","t","r","o","j","a","n">>, <<"M","i","r","a","i">> }

\* IOC type tags tried
IocTypeTokens ==
  { <<"d","o","m","a","i","n">>,
    <<"U","R","L">>,
    <<"i","p">>,
    <<":","p","o","r","t">>,
    <<"m","d","5">>,
    <<"_","h","a","s","h">>,
    <<"S","H","A","2","5","6">>,
    <<"e","m","a","i","l">>,
    <<"_","a","d","d","r","e","s","s">>,
    <<"F","Q","D","N">>,
    <<"s","h">> }

\* what session.get can end with: a RequestException, or a response with a
\* status and a body that is no JSON, JSON that is no array of objects, or an
\* array of raw records
NetworkError == [kind |-> "network_error", status |-> 0, json |-> "none", items |-> <<>>]

StatusCodes == {200, 300, 404, TooManyRequests, 500}

Responses ==
  {NetworkError} \cup
  { [kind |-> "http", status |-> st, json |-> j, items |-> <<>>] :
      st \in StatusCodes, j \in {"malformed", "not_array"} } \cup
  { [kind |-> "http", status |-> st, json |-> "array", items |-> it] :
      st \in StatusCodes, it \in RawBatches }

(* ---------------------- extract_data (lines 86-133) -------------------- *)

\* the response extract_data ends with: the second one after a 429 (lines 102-105)
FinalResponse(first, second) ==
  IF first.kind = "http" /\ first.status = TooManyRequests THEN second ELSE first

\* extract_data() at time `at`, the two session.get calls ending as given: []
\* when a get raises, raise_for_status raises (status 400 and up), json()
\* raises or the body is no array of objects; else the records, each with its
\* extraction_metadata
ExtractData(first, second, at) ==
  LET last == FinalResponse(first, second) IN
  IF last.kind = "network_error" THEN <<>>
  ELSE IF last.status >= ErrorStatus THEN <<>>
  ELSE IF last.json # "array" THEN <<>>
  ELSE [ i \in 1..Len(last.items) |->
           [last.items[i] EXCEPT !["extraction_metadata"] = Meta(at, Len(last.items))] ]

(* ------------------------------- state --------------------------------- *)

VARIABLES
  attrs,            \* the attributes of _init_ exist on the connector object
  mongo_client,     \* self.mongo_client: "unset", "None", "open"
  collection,       \* self.collection: "unset", "None", "bound"
  session,          \* self.session: "unset", "open"
  store,            \* the MongoDB collection: its documents in natural order
  indexes,          \* the index keys created on the collection
  now,              \* the clock (datetime.now)
  pc,               \* where the caller and the running method are
  caller,           \* who called load_data: "direct" or "run"
  raw_data,         \* run_etl_pipeline: the result of extract_data
  transform_in,     \* the argument of the last transform_data call
  docs,             \* the result of the last transform_data call
  transformed_data, \* load_data: its argument
  idx,              \* load_data: the record the loop is at
  inserted_count,   \* load_data
  updated_count,    \* load_data
  load_ret,         \* what load_data returned: "none", TRUE, FALSE
  run_ret,          \* what run_etl_pipeline returned: "none", TRUE, FALSE
  response,         \* history: the HTTP response extract_data ended with
  outcomes,         \* history: the store's answer to each replace_one of this load_data call
  index_result,     \* history: the create_index calls of this load_data call: "none", "ok", "failed"
  store_before,     \* history: the store when the operation under way was called
  repeated,         \* history: this load_data call repeats the call before it, which was free of faults
  last_ok,          \* history: per threat_id, the last record whose upsert succeeded
  called,           \* history: the methods this run_etl_pipeline call has called
  sample,           \* the arguments a classification function is applied to
  verdict,          \* what it returned, "none" before
  main_pc,          \* where main() is: "none" while it has not been started
  exit_status,      \* the status the process of main() exits with: "none", "0", "1"
  cleanup           \* the finally clause of main(): "none", "done", "raised"

vars ==
  << attrs, mongo_client, collection, session, store, indexes, now, pc, caller,
     raw_data, transform_in, docs, transformed_data, idx, inserted_count,
     updated_count, load_ret, run_ret, response, outcomes, index_result,
     store_before, repeated, last_ok, called, sample, verdict,
     main_pc, exit_status, cleanup >>

connector == << attrs, mongo_client, collection, session >>
loadLocals == << transformed_data, idx, inserted_count, updated_count, load_ret >>
loadHistory == << outcomes, index_result, repeated >>
runLocals == << raw_data, run_ret, response, called >>
transformLocals == << transform_in, docs >>
classification == << sample, verdict >>
process == << main_pc, exit_status, cleanup >>

NoSample == [confidence |-> 0, threat_type |-> <<>>, malware |-> <<>>, ioc_type |-> <<>>]

NoResponse == [kind |-> "none", status |-> 0, json |-> "none"]

\* ThreatFoxETLConnector(): the class defines _init_, not __init__, so that
\* construction sets no attribute; the collection starts empty
Constructed ==
  /\ attrs = FALSE
  /\ mongo_client = "unset"
  /\ collection = "unset"
  /\ session = "unset"
  /\ store = <<>>
  /\ indexes = {}
  /\ now = 0
  /\ pc = "idle"
  /\ caller = "direct"
  /\ raw_data = <<>>
  /\ transform_in = <<>>
  /\ docs = <<>>
  /\ transformed_data = <<>>
  /\ idx = 1
  /\ inserted_count = 0
  /\ updated_count = 0
  /\ load_ret = "none"
  /\ run_ret = "none"
  /\ response = NoResponse
  /\ outcomes = <<>>
  /\ index_result = "none"
  /\ store_before = <<>>
  /\ repeated = FALSE
  /\ last_ok = {}
  /\ called = {}
  /\ main_pc = "none"
  /\ exit_status = "none"
  /\ cleanup = "none"

Init ==
  /\ Constructed
  /\ sample = NoSample
  /\ verdict = "none"

(* --------------------------- the connector ----------------------------- *)

\* _init_(self), called explicitly (lines 40-65)
CallInit ==
  /\ pc = "idle"
  /\ attrs' = TRUE
  /\ mongo_client' = "None"
  /\ collection' = "None"
  /\ session' = "open"
  /\ UNCHANGED << store, indexes, now, pc, caller, store_before, last_ok >>
  /\ UNCHANGED << loadLocals, loadHistory, runLocals, transformLocals, classification, process >>

\* what MongoClient(...) and the ping can do
ConnectOutcomes == {"ok", "connection_failure", "operation_failure", "configuration_error"}

\* connect_to_mongodb (lines 74-84) under an outcome: the attributes after it and
\* "True", "False" or "raise"
ConnectToMongodb(outcome) ==
  CASE outcome = "ok" ->
         [mongo_client |-> "open", collection |-> "bound", result |-> "True"]
    [] outcome = "connection_failure" ->
         [mongo_client |-> "open", collection |-> collection, result |-> "False"]
    [] outcome = "operation_failure" ->
         [mongo_client |-> "open", collection |-> collection, result |-> "raise"]
    [] OTHER ->
         [mongo_client |-> mongo_client, collection |-> collection, result |-> "raise"]

\* connect_to_mongodb called on its own
CallConnect ==
  /\ pc = "idle"
  /\ attrs
  /\ \E outcome \in ConnectOutcomes :
       LET after == ConnectToMongodb(outcome) IN
       /\ mongo_client' = after.mongo_client
       /\ collection' = after.collection
  /\ UNCHANGED << attrs, session, store, indexes, now, pc, caller, store_before, last_ok >>
  /\ UNCHANGED << loadLocals, loadHistory, runLocals, transformLocals, classification, process >>

\* time passes between two operations
Tick ==
  /\ pc = "idle"
  /\ now < MaxClock
  /\ now' = now + 1
  /\ UNCHANGED << connector, store, indexes, pc, caller, store_before, last_ok >>
  /\ UNCHANGED << loadLocals, loadHistory, runLocals, transformLocals, classification, process >>

\* transform_data called on its own with a raw batch
CallTransform ==
  /\ pc = "idle"
  /\ \E raw \in TransformBatches :
       /\ transform_in' = raw
       /\ docs' = TransformData(raw, now)
  /\ pc' = "transform_done"
  /\ UNCHANGED << connector, store, indexes, now, caller, store_before, last_ok >>
  /\ UNCHANGED << loadLocals, loadHistory, runLocals, classification, process >>

(* ----------------------- load_data (lines 349-400) --------------------- *)

\* the keys of the seven create_index calls, in order (lines 365-371)
IndexKeys ==
  << "etl_metadata.ingestion_timestamp", "threat_id", "ioc_type", "threat_severity",
     "malware_family_clean", "is_active_threat", "first_seen_parsed" >>

\* positions of the documents of coll matching {'threat_id': key}
Matching(coll, key) == { i \in 1..Len(coll) : coll[i].threat_id = key }

\* a mutant: the record is inserted whether or not its key is stored (insert_one)
InsertOne(coll, record) ==
  [coll |-> Append(coll, record), upserted |-> TRUE, modified_count |-> 0]

\* a mutant: the stored document is patched ($set of the fields that differ
\* from the raw payload) and keeps its original_data
PatchOne(coll, record) ==
  LET hits == Matching(coll, record.threat_id) IN
  IF hits = {}
  THEN [coll |-> Append(coll, record), upserted |-> TRUE, modified_count |-> 0]
  ELSE LET i == CHOOSE h \in hits : \A g \in hits : h <= g
           patched == [record EXCEPT !.original_data = coll[i].original_data]
       IN [coll |-> [coll EXCEPT ![i] = patched],
           upserted |-> FALSE,
           modified_count |-> IF coll[i] = patched THEN 0 ELSE 1]

\* a mutant: a replacement that changes nothing is reported as modified
ReplaceOneAlwaysModified(coll, record) ==
  LET hits == Matching(coll, record.threat_id) IN
  IF hits = {}
  THEN [coll |-> Append(coll, record), upserted |-> TRUE, modified_count |-> 0]
  ELSE LET i == CHOOSE h \in hits : \A g \in hits : h <= g
       IN [coll |-> [coll EXCEPT ![i] = record],
           upserted |-> FALSE,
           modified_count |-> 1]

\* collection.replace_one({'threat_id': record['threat_id']}, record, upsert=True)
\* when the store accepts it: the first matching document is replaced as a
\* whole, or the record is inserted; the UpdateResult
ReplaceOne(coll, record) ==
  LET hits == Matching(coll, record.threat_id) IN
  IF hits = {}
  THEN [coll |-> Append(coll, record), upserted |-> TRUE, modified_count |-> 0]
  ELSE LET i == CHOOSE h \in hits : \A g \in hits : h <= g
       IN [coll |-> [coll EXCEPT ![i] = record],
           upserted |-> FALSE,
           modified_count |-> IF coll[i] = record THEN 0 ELSE 1]

\* what the store can answer to one replace_one
UpsertOutcomes == {"ok", "rejected", "connection_lost"}

\* the last call of load_data returned True and none of its store calls failed
FaultFree ==
  /\ load_ret = TRUE
  /\ index_result = "ok"
  /\ Len(outcomes) = Len(transformed_data)
  /\ \A i \in 1..Len(outcomes) : outcomes[i] = "ok"

\* load_data(batch) is entered at position `from` by `who`: the empty-batch
\* return (lines 359-361), the create_index calls (lines 363-371), of which the
\* first n succeed, and the except clause of lines 398-400
LoadEnter(batch, who, from) ==
  /\ pc = from
  /\ caller' = who
  /\ transformed_data' = batch
  /\ store_before' = store
  /\ outcomes' = <<>>
  /\ repeated' = (from = "load_done" /\ FaultFree /\ batch = transformed_data)
  /\ idx' = 1
  /\ inserted_count' = 0
  /\ updated_count' = 0
  /\ IF batch = <<>>
     THEN /\ load_ret' = TRUE
          /\ index_result' = "none"
          /\ pc' = IF who = "run" THEN "run_loaded" ELSE "load_done"
          /\ UNCHANGED indexes
     ELSE IF collection # "bound"
     THEN /\ load_ret' = FALSE
          /\ index_result' = "none"
          /\ pc' = IF who = "run" THEN "run_loaded" ELSE "load_done"
          /\ UNCHANGED indexes
     ELSE \E n \in 0..Len(IndexKeys) :
            /\ indexes' = indexes \cup { IndexKeys[k] : k \in 1..n }
            /\ index_result' = IF n = Len(IndexKeys) THEN "ok" ELSE "failed"
            /\ IF n = Len(IndexKeys)
               THEN /\ load_ret' = "none"
                    /\ pc' = "load_loop"
               ELSE /\ load_ret' = FALSE
                    /\ pc' = IF who = "run" THEN "run_loaded" ELSE "load_done"
  /\ UNCHANGED << connector, store, now, last_ok >>

\* load_data called on its own with the documents of a transform_data call
CallLoad ==
  /\ \E raw \in RawBatches : LoadEnter(TransformData(raw, now), "direct", "idle")
  /\ UNCHANGED << runLocals, transformLocals, classification, process >>

\* load_data called again with the batch it has just returned from
CallLoadAgain ==
  /\ LoadEnter(transformed_data, "direct", "load_done")
  /\ UNCHANGED << runLocals, transformLocals, classification, process >>

\* replace_one on the record the loop is at, answered by `outcome`, and the
\* counting of lines 386-389; a failed call changes nothing
Upsert(outcome) ==
  LET record == transformed_data[idx]
      result == ReplaceOne(store, record)
  IN /\ outcomes' = Append(outcomes, outcome)
     /\ IF outcome = "ok"
        THEN /\ store' = result.coll
             /\ inserted_count' = inserted_count + (IF result.upserted THEN 1 ELSE 0)
             /\ updated_count' =
                  updated_count +
                    (IF ~result.upserted /\ result.modified_count > 0 THEN 1 ELSE 0)
             /\ last_ok' =
                  { d \in last_ok : d.threat_id # record.threat_id } \cup {record}
        ELSE UNCHANGED << store, inserted_count, updated_count, last_ok >>

\* a mutant: a failed replace_one reaches the outer except clause (no inner
\* try), and load_data returns False
LoadRecordAbortOnError ==
  /\ pc = "load_loop"
  /\ idx <= Len(transformed_data)
  /\ \E outcome \in UpsertOutcomes :
       /\ Upsert(outcome)
       /\ IF outcome = "ok"
          THEN UNCHANGED << pc, load_ret >>
          ELSE /\ load_ret' = FALSE
               /\ pc' = IF caller = "run" THEN "run_loaded" ELSE "load_done"
  /\ idx' = idx + 1
  /\ UNCHANGED << connector, indexes, now, caller, store_before, index_result, repeated >>
  /\ UNCHANGED << transformed_data, runLocals, transformLocals, classification, process >>

\* one turn of the loop of lines 377-393: a replace_one that raises is logged
\* and the loop goes on
LoadRecord ==
  /\ pc = "load_loop"
  /\ idx <= Len(transformed_data)
  /\ \E outcome \in UpsertOutcomes : Upsert(outcome)
  /\ idx' = idx + 1
  /\ UNCHANGED << connector, indexes, now, pc, caller, store_before, index_result, repeated >>
  /\ UNCHANGED << transformed_data, load_ret, runLocals, transformLocals, classification, process >>

\* the loop is over: line 396
LoadReturn ==
  /\ pc = "load_loop"
  /\ idx > Len(transformed_data)
  /\ load_ret' = TRUE
  /\ pc' = IF caller = "run" THEN "run_loaded" ELSE "load_done"
  /\ UNCHANGED << connector, store, indexes, now, caller, store_before, last_ok >>
  /\ UNCHANGED << transformed_data, idx, inserted_count, updated_count >>
  /\ UNCHANGED << loadHistory, runLocals, transformLocals, classification, process >>

(* ------------------- run_etl_pipeline (lines 402-440) ------------------ *)

\* `if not raw_data`, `if not transformed_data`
IsEmpty(list) == list = <<>>

\* run_etl_pipeline is entered at position `from`: connect_to_mongodb (step 1);
\* on an object without attributes its AttributeError reaches the except
\* clause of line 438
RunEnter(from) ==
  /\ pc = from
  /\ called' = {"connect_to_mongodb"}
  /\ store_before' = store
  /\ IF ~attrs
     THEN /\ run_ret' = FALSE
          /\ pc' = "run_done"
          /\ UNCHANGED << mongo_client, collection >>
     ELSE \E outcome \in ConnectOutcomes :
            LET after == ConnectToMongodb(outcome) IN
            /\ mongo_client' = after.mongo_client
            /\ collection' = after.collection
            /\ IF after.result = "True"
               THEN /\ pc' = "run_connected"
                    /\ UNCHANGED run_ret
               ELSE /\ run_ret' = FALSE
                    /\ pc' = "run_done"
  /\ UNCHANGED << attrs, session, store, indexes, now, caller, last_ok >>
  /\ UNCHANGED << raw_data, response, loadLocals, loadHistory, transformLocals, classification >>

\* run_etl_pipeline called on its own
RunStart ==
  /\ RunEnter("idle")
  /\ UNCHANGED process

\* step 2: extract_data, and the return of lines 419-421
RunExtract ==
  /\ pc = "run_connected"
  /\ called' = called \cup {"extract_data"}
  /\ \E first, second \in Responses :
       LET last == FinalResponse(first, second) IN
       /\ second = (IF first.kind = "http" /\ first.status = TooManyRequests
                    THEN second ELSE NetworkError)
       /\ response' = [kind |-> last.kind, status |-> last.status, json |-> last.json]
       /\ raw_data' = ExtractData(first, second, now)
  /\ IF IsEmpty(raw_data')
     THEN /\ run_ret' = FALSE
          /\ pc' = "run_done"
     ELSE /\ pc' = "run_extracted"
          /\ UNCHANGED run_ret
  /\ UNCHANGED << connector, store, indexes, now, caller, store_before, last_ok >>
  /\ UNCHANGED << loadLocals, loadHistory, transformLocals, classification, process >>

\* step 3: transform_data, and the return of lines 425-427
RunTransform ==
  /\ pc = "run_extracted"
  /\ called' = called \cup {"transform_data"}
  /\ transform_in' = raw_data
  /\ docs' = TransformData(raw_data, now)
  /\ IF IsEmpty(docs')
     THEN /\ run_ret' = FALSE
          /\ pc' = "run_done"
     ELSE /\ pc' = "run_transformed"
          /\ UNCHANGED run_ret
  /\ UNCHANGED << connector, store, indexes, now, caller, store_before, last_ok >>
  /\ UNCHANGED << raw_data, response, loadLocals, loadHistory, classification, process >>

\* step 4: load_data is called
RunLoad ==
  /\ LoadEnter(docs, "run", "run_transformed")
  /\ called' = called \cup {"load_data"}
  /\ UNCHANGED << raw_data, run_ret, response, transformLocals, classification, process >>

\* load_data has returned: lines 430-436
RunFinish ==
  /\ pc = "run_loaded"
  /\ run_ret' = (load_ret = TRUE)
  /\ pc' = "run_done"
  /\ UNCHANGED << connector, store, indexes, now, caller, store_before, last_ok >>
  /\ UNCHANGED << raw_data, response, called, loadLocals, loadHistory, transformLocals, classification, process >>

(* --------------------------- main (lines 503-529) ---------------------- *)

\* main() is started: connector = ThreatFoxETLConnector() makes a new object,
\* and no method named __init__ sets its attributes (line 505)
MainStart ==
  /\ pc = "idle"
  /\ main_pc = "none"
  /\ attrs' = FALSE
  /\ mongo_client' = "unset"
  /\ collection' = "unset"
  /\ session' = "unset"
  /\ main_pc' = "constructed"
  /\ pc' = "main"
  /\ UNCHANGED << store, indexes, now, caller, store_before, last_ok, exit_status, cleanup >>
  /\ UNCHANGED << loadLocals, loadHistory, runLocals, transformLocals, classification >>

\* success = connector.run_etl_pipeline() (line 509)
MainRunPipeline ==
  /\ main_pc = "constructed"
  /\ RunEnter("main")
  /\ main_pc' = "running"
  /\ UNCHANGED << exit_status, cleanup >>

\* run_etl_pipeline has returned (lines 511-522): on success
\* get_pipeline_stats(), which only reads and catches what it raises, and
\* sys.exit(0); else sys.exit(1); SystemExit leaves the try block
MainExit ==
  /\ main_pc = "running"
  /\ pc = "run_done"
  /\ exit_status' = IF run_ret = TRUE THEN "0" ELSE "1"
  /\ main_pc' = "finally"
  /\ pc' = "main"
  /\ UNCHANGED << connector, store, indexes, now, caller, store_before, last_ok, cleanup >>
  /\ UNCHANGED << loadLocals, loadHistory, runLocals, transformLocals, classification >>

\* the finally clause (lines 524-529): reading connector.mongo_client of an
\* object without attributes raises AttributeError, which takes the place of
\* SystemExit and ends the process with a traceback and status 1; else the
\* client and the session are closed when they are not None
MainCleanup ==
  /\ main_pc = "finally"
  /\ IF ~attrs
     THEN /\ cleanup' = "raised"
          /\ exit_status' = "1"
          /\ UNCHANGED << mongo_client, session >>
     ELSE /\ cleanup' = "done"
          /\ mongo_client' = IF mongo_client = "open" THEN "closed" ELSE mongo_client
          /\ session' = IF session = "open" THEN "closed" ELSE session
          /\ UNCHANGED exit_status
  /\ main_pc' = "ended"
  /\ pc' = "exited"
  /\ UNCHANGED << attrs, collection, store, indexes, now, caller, store_before, last_ok >>
  /\ UNCHANGED << loadLocals, loadHistory, runLocals, transformLocals, classification >>

\* the caller (not main) is done with the result of the operation: its locals go
Resume ==
  /\ pc \in {"load_done", "transform_done", "run_done"}
  /\ main_pc = "none"
  /\ pc' = "idle"
  /\ caller' = "direct"
  /\ raw_data' = <<>>
  /\ transform_in' = <<>>
  /\ docs' = <<>>
  /\ transformed_data' = <<>>
  /\ idx' = 1
  /\ inserted_count' = 0
  /\ updated_count' = 0
  /\ load_ret' = "none"
  /\ run_ret' = "none"
  /\ response' = NoResponse
  /\ outcomes' = <<>>
  /\ index_result' = "none"
  /\ store_before' = <<>>
  /\ repeated' = FALSE
  /\ called' = {}
  /\ UNCHANGED << connector, store, indexes, now, last_ok, classification, process >>

\* load_data called, time after time, on a connector that _init_ and
\* connect_to_mongodb may have set up
Next ==
  \/ CallInit
  \/ CallConnect
  \/ CallLoad
  \/ CallLoadAgain
  \/ LoadRecord
  \/ LoadReturn
  \/ Resume

Spec == Init /\ [][Next]_vars

\* run_etl_pipeline called, time after time, on a connector that _init_ may
\* have set up
NextRun ==
  \/ CallInit
  \/ Tick
  \/ RunStart
  \/ RunExtract
  \/ RunTransform
  \/ RunLoad
  \/ LoadRecord
  \/ LoadReturn
  \/ RunFinish
  \/ Resume

SpecRun == Init /\ [][NextRun]_vars

\* main() started at some time, on a store that earlier run_etl_pipeline calls
\* (on a connector set up by an explicit _init_) may have filled
NextMain ==
  \/ CallInit
  \/ Tick
  \/ RunStart
  \/ RunExtract
  \/ RunTransform
  \/ RunLoad
  \/ LoadRecord
  \/ LoadReturn
  \/ RunFinish
  \/ Resume
  \/ MainStart
  \/ MainRunPipeline
  \/ MainExit
  \/ MainCleanup

SpecMain == Init /\ [][NextMain]_vars

\* _calculate_threat_severity applied to arguments drawn at the start
InitSeverity ==
  /\ Constructed
  /\ verdict = "none"
  /\ sample \in [confidence : (-1)..MaxConfidence,
                  threat_type : Texts(ThreatTypeTokens),
                  malware : MalwareNames,
                  ioc_type : {<<>>}]

ApplySeverity ==
  /\ verdict = "none"
  /\ verdict' = CalculateThreatSeverity(sample.confidence, sample.threat_type, sample.malware)
  /\ UNCHANGED << connector, store, indexes, now, pc, caller, store_before, last_ok >>
  /\ UNCHANGED << loadLocals, loadHistory, runLocals, transformLocals, sample, process >>

SpecSeverity == InitSeverity /\ [][ApplySeverity]_vars

\* _categorize_ioc_type applied to a tag drawn at the start
InitCategory ==
  /\ Constructed
  /\ verdict = "none"
  /\ sample \in [confidence : {0},
                  threat_type : {<<>>},
                  malware : {<<>>},
                  ioc_type : Texts(IocTypeTokens)]

ApplyCategory ==
  /\ verdict = "none"
  /\ verdict' = CategorizeIocType(sample.ioc_type)
  /\ UNCHANGED << connector, store, indexes, now, pc, caller, store_before, last_ok >>
  /\ UNCHANGED << loadLocals, loadHistory, runLocals, transformLocals, sample, process >>

SpecCategory == InitCategory /\ [][ApplyCategory]_vars

\* the raw records _calculate_threat_quality is tried on: each checked field
\* absent, null, empty or not, a blank IOC value, a confidence absent, null,
\* negative, zero or positive
QualitySamples ==
  { [EmptyRaw EXCEPT !["id"] = i, !["ioc_value"] = v, !["ioc_type"] = ty,
                     !["threat_type"] = th, !["malware"] = ma,
                     !["first_seen"] = fs, !["confidence_level"] = c] :
      i \in {Absent, Null, EmptyStr, Str(<<"t","1">>)},
      v \in {Absent, Null, EmptyStr, Str(<<" ">>), Str(<<"a">>)},
      ty \in {Absent, Null, EmptyStr, Str(<<"u","r","l">>)},
      th \in {Absent, Null, EmptyStr, Str(<<"b","o","t">>)},
      ma \in {Absent, Null, EmptyStr, Str(<<"M","i","r","a","i">>)},
      fs \in {Absent, Null, EmptyStr, Str(<<"x">>)},
      c \in {Absent, Null, Num(-1), Num(0), Num(1), Num(MaxConfidence)} }

\* what a call of a scoring function gave: not called yet, raised, or a score
NotScored == [done |-> FALSE, raised |-> FALSE, score |-> 0]

\* _calculate_threat_quality applied to a raw record drawn at the start
InitQuality ==
  /\ Constructed
  /\ verdict = NotScored
  /\ sample \in QualitySamples

ApplyQuality ==
  /\ ~verdict.done
  /\ verdict' =
       IF QualityRaises(sample)
       THEN [done |-> TRUE, raised |-> TRUE, score |-> 0]
       ELSE [done |-> TRUE, raised |-> FALSE, score |-> CalculateThreatQuality(sample)]
  /\ UNCHANGED << connector, store, indexes, now, pc, caller, store_before, last_ok >>
  /\ UNCHANGED << loadLocals, loadHistory, runLocals, transformLocals, sample, process >>

SpecQuality == InitQuality /\ [][ApplyQuality]_vars

\* transform_data called, time after time, on raw batches
NextTransform ==
  \/ Tick
  \/ CallTransform
  \/ Resume

SpecTransform == Init /\ [][NextTransform]_vars

(* ------------------------------ claims --------------------------------- *)

\* load_data has returned to a direct caller
Loaded == pc = "load_done"

\* the stored documents with a given threat_id
StoredUnder(key) == { store[i] : i \in Matching(store, key) }

\* two records of the batch share their threat_id and differ
BatchRewritesKey ==
  \E i, j \in 1..Len(transformed_data) :
    /\ transformed_data[i].threat_id = transformed_data[j].threat_id
    /\ transformed_data[i] # transformed_data[j]

\* the store holds exactly one document per threat_id of the batch
OnePerBatchKey ==
  \A i \in 1..Len(transformed_data) :
    Cardinality(Matching(store, transformed_data[i].threat_id)) = 1

\* C1 as stated: when load_data is called a second time in a row with the same
\* batch (both calls free of faults), the store holds exactly one document per
\* threat_id of the batch and equals the store after the first call, and the
\* second call counts zero inserted and zero updated.
C1_ReloadCountsNothing ==
  (Loaded /\ repeated /\ FaultFree) =>
    /\ OnePerBatchKey
    /\ store = store_before
    /\ inserted_count = 0
    /\ updated_count = 0

\* C1 amended: as above, but the second call counts zero updated only when no
\* two records of the batch share a threat_id with different content (when
\* they do, each overwrites the other on every call and is counted as updated).
C1_ReloadIdempotent ==
  (Loaded /\ repeated /\ FaultFree) =>
    /\ OnePerBatchKey
    /\ store = store_before
    /\ inserted_count = 0
    /\ ~BatchRewritesKey => updated_count = 0

\* a second call in a row has returned for a batch of two keys
C1_Witness ==
  /\ Loaded /\ repeated /\ FaultFree
  /\ Len(transformed_data) = 2
  /\ transformed_data[1].threat_id # transformed_data[2].threat_id
  /\ Len(store) = 2

\* C2: at any time the store holds at most one document per threat_id, and it
\* is, whole, the last record with that key whose upsert succeeded; while and
\* after load_data runs, the documents whose key is not in the batch are the
\* ones stored when it was called.
C2_LastWriteWins ==
  /\ \A i, j \in 1..Len(store) : store[i].threat_id = store[j].threat_id => i = j
  /\ { store[i] : i \in 1..Len(store) } = last_ok
  /\ pc \in {"load_loop", "load_done", "run_loaded"} =>
       \A i \in 1..Len(store_before) :
         (\A k \in 1..Len(transformed_data) :
            transformed_data[k].threat_id # store_before[i].threat_id)
         => store_before[i] \in StoredUnder(store_before[i].threat_id)

\* two different records that both default to the key "unknown" were upserted
\* over a store holding a document of another key: only the second is stored
C2_Witness ==
  /\ Loaded /\ FaultFree
  /\ Len(transformed_data) = 2
  /\ transformed_data[1].threat_id = Unknown
  /\ transformed_data[2].threat_id = Unknown
  /\ transformed_data[1] # transformed_data[2]
  /\ StoredUnder(Unknown) = {transformed_data[2]}
  /\ \E i \in 1..Len(store_before) : store_before[i].threat_id # Unknown

\* a turn of the loop of load_data whose replace_one the store accepted
AcceptedUpsert ==
  /\ pc = "load_loop"
  /\ idx' = idx + 1
  /\ outcomes'[idx] = "ok"

\* C3: a record whose upsert the store accepts is inserted and counted as
\* inserted when no stored document has its threat_id, counted as updated when
\* one exists and differs from it, and counted as neither when one exists and
\* equals it; when load_data has returned, inserted_count is the number of
\* documents added to the store and inserted_count + updated_count is at most
\* the batch size.
C3_Counting ==
  /\ [][AcceptedUpsert =>
          LET record == transformed_data[idx]
              found == StoredUnder(record.threat_id)
          IN /\ found = {} =>
                  /\ inserted_count' = inserted_count + 1
                  /\ updated_count' = updated_count
                  /\ Len(store') = Len(store) + 1
                  /\ store'[Len(store')] = record
             /\ (found # {} /\ record \notin found) =>
                  /\ inserted_count' = inserted_count
                  /\ updated_count' = updated_count + 1
                  /\ Len(store') = Len(store)
             /\ (found # {} /\ record \in found) =>
                  /\ inserted_count' = inserted_count
                  /\ updated_count' = updated_count
                  /\ store' = store]_vars
  /\ [](pc \in {"load_loop", "load_done", "run_loaded"} =>
          /\ inserted_count = Len(store) - Len(store_before)
          /\ inserted_count + updated_count <= Len(transformed_data))

\* a call that changed a stored document with its first record and nothing
\* with its second
C3_Witness ==
  /\ Loaded /\ FaultFree
  /\ Len(transformed_data) = 2
  /\ inserted_count = 0
  /\ updated_count = 1
  /\ transformed_data[1] = transformed_data[2]

\* the last record of the batch with the threat_id of record i whose upsert
\* the store accepted
LastAccepted(i) ==
  LET same == { j \in 1..Len(outcomes) :
                  /\ outcomes[j] = "ok"
                  /\ transformed_data[j].threat_id = transformed_data[i].threat_id }
  IN transformed_data[CHOOSE j \in same : \A k \in same : k <= j]

\* C4: when load_data has got past the index creation and the store rejects
\* the upsert of some records (no connection is lost), every record of the
\* batch has been tried, every accepted record is stored (as the last accepted version of its key), a
\* rejected record has changed nothing, and load_data returns True.
C4_RejectedRecordSkipped ==
  (Loaded /\ index_result = "ok" /\ (\A i \in 1..Len(outcomes) : outcomes[i] # "connection_lost")) =>
    /\ load_ret = TRUE
    /\ Len(outcomes) = Len(transformed_data)
    /\ \A i \in 1..Len(outcomes) :
         /\ outcomes[i] = "ok" => StoredUnder(transformed_data[i].threat_id) = {LastAccepted(i)}
         /\ (outcomes[i] = "rejected" /\ transformed_data[i] \in StoredUnder(transformed_data[i].threat_id)) =>
              \/ \E j \in 1..Len(outcomes) :
                   outcomes[j] = "ok" /\ transformed_data[j] = transformed_data[i]
              \/ \E j \in 1..Len(store_before) : store_before[j] = transformed_data[i]

\* the first record of a batch of two was rejected and the second, of another
\* key, is stored
C4_Witness ==
  /\ Loaded
  /\ outcomes = <<"rejected", "ok">>
  /\ transformed_data[1].threat_id # transformed_data[2].threat_id
  /\ StoredUnder(transformed_data[1].threat_id) = {}
  /\ StoredUnder(transformed_data[2].threat_id) = {transformed_data[2]}
  /\ load_ret = TRUE

\* the records of the argument of transform_data whose derivation does not raise
Kept == { i \in 1..Len(transform_in) : ~DerivationRaises(transform_in[i]) }

\* a string field of the record is present with a null or non-string value
HasBadString(record) ==
  /\ IsObject(record)
  /\ \E f \in StripFields : record[f].t \in {"null", "int", "list"}

\* the document is the one made from the raw record
MadeFrom(doc, record) ==
  /\ doc.original_data = record
  /\ doc.threat_id = (IF record["id"].t = "absent" THEN Unknown ELSE record["id"])
  /\ doc = TransformedRecord(record, doc.ingestion_timestamp)

\* C8: transform_data returns, in input order, exactly one document for every
\* raw record whose derivation does not raise and none for the others; a record
\* with every field absent is kept, and a record with a null or non-string
\* string field is dropped without stopping the records after it.
C8_TransformKeepsOrder ==
  pc \in {"transform_done", "run_transformed"} =>
    /\ Len(docs) = Cardinality(Kept)
    /\ \E place \in [1..Len(docs) -> 1..Len(transform_in)] :
         /\ \A j \in 1..Len(docs) : place[j] \in Kept /\ MadeFrom(docs[j], transform_in[place[j]])
         /\ \A j, k \in 1..Len(docs) : j < k => place[j] < place[k]
    /\ \A i \in 1..Len(transform_in) :
         /\ transform_in[i] = EmptyRaw => i \in Kept
         /\ HasBadString(transform_in[i]) => i \notin Kept

\* a record with a null string field was dropped and the record after it, with
\* every field absent, was transformed
C8_Witness ==
  /\ pc = "transform_done"
  /\ Len(transform_in) = 2
  /\ HasBadString(transform_in[1])
  /\ transform_in[1]["ioc_value"] = Null
  /\ transform_in[2] = EmptyRaw
  /\ Len(docs) = 1
  /\ docs[1].original_data = EmptyRaw

\* C9: the severity is HIGH from confidence 75 on; from 50 to 74 it is HIGH when
\* the threat type contains botnet, ransomware or trojan in any case and MEDIUM
\* otherwise; from 25 to 49 it is MEDIUM; below 25 it is LOW; it is defined for
\* every confidence and threat type and does not depend on the malware name.
C9_SeverityBands ==
  verdict # "none" =>
    LET c == sample.confidence
        keyword == \E k \in 1..Len(SeverityKeywords) :
                     Contains(Lower(sample.threat_type), SeverityKeywords[k])
    IN /\ verdict \in {"HIGH", "MEDIUM", "LOW"}
       /\ c >= 75 => verdict = "HIGH"
       /\ (50 <= c /\ c < 75) => verdict = (IF keyword THEN "HIGH" ELSE "MEDIUM")
       /\ (25 <= c /\ c < 50) => verdict = "MEDIUM"
       /\ c < 25 => verdict = "LOW"
       /\ c = 75 => verdict = "HIGH"
       /\ c = 25 => verdict = "MEDIUM"
       /\ c = 50 => verdict # "LOW"

\* at the boundary 50 a threat type with the keyword in upper case gives HIGH
\* whatever the malware name
C9_Witness ==
  /\ verdict = "HIGH"
  /\ sample.confidence = 50
  /\ sample.threat_type = <<"T","R","O","J","A","N">>
  /\ sample.malware = <<"M","i","r","a","i">>

\* the ordered rule table of the IOC category
CategoryRules ==
  << [keywords |-> { <<"d","o","m","a","i","n">>, <<"u","r","l">> }, category |-> "NETWORK"],
     [keywords |-> { <<"i","p">> }, category |-> "NETWORK"],
     [keywords |-> { <<"h","a","s","h">>, <<"m","d","5">>, <<"s","h","a">> }, category |-> "FILE"],
     [keywords |-> { <<"e","m","a","i","l">> }, category |-> "EMAIL"] >>

\* the rules a tag matches, case-insensitively on substrings
RulesMatching(tag) ==
  { r \in 1..Len(CategoryRules) :
      \E kw \in CategoryRules[r].keywords : Contains(Lower(tag), kw) }

\* C10: the IOC category is that of the first rule of the table the tag
\* matches, and OTHER when it matches none; the empty tag gets OTHER.
C10_FirstRuleWins ==
  verdict # "none" =>
    LET hits == RulesMatching(sample.ioc_type) IN
    /\ hits = {} => verdict = "OTHER"
    /\ hits # {} =>
         verdict = CategoryRules[CHOOSE r \in hits : \A q \in hits : r <= q].category
    /\ sample.ioc_type = <<>> => verdict = "OTHER"

\* a tag matching the ip rule and the file rule gets the category of the ip rule
C10_Witness ==
  /\ sample.ioc_type = <<"i","p","_","h","a","s","h">>
  /\ RulesMatching(sample.ioc_type) = {2, 3}
  /\ verdict = "NETWORK"

\* load_data has returned, to a direct caller or to run_etl_pipeline
LoadReturned ==
  \/ pc = "load_done"
  \/ pc = "run_loaded"
  \/ pc = "run_done" /\ "load_data" \in called

\* a collection-level fault hit this load_data call: a create_index failed, or
\* the connection was lost during a replace_one
CollectionFault ==
  \/ index_result = "failed"
  \/ \E i \in 1..Len(outcomes) : outcomes[i] = "connection_lost"

\* C5: when load_data has returned after an index creation that failed or a
\* connection lost during the upserts, it has returned False, and so has
\* run_etl_pipeline when it has returned.
C5_CollectionFaultIsFatal ==
  (LoadReturned /\ CollectionFault) =>
    /\ load_ret = FALSE
    /\ pc = "run_done" => run_ret = FALSE

\* the fetch failed: a network error, a status outside 200..299, or a body
\* that is no JSON
FetchFailed ==
  \/ response.kind = "network_error"
  \/ /\ response.kind = "http"
     /\ \/ response.status < 200
        \/ response.status > 299
        \/ response.json = "malformed"

\* C6: once the fetch of a run has failed, the run calls neither transform_data
\* nor load_data, leaves the store as it was, and returns False.
C6_FetchFailureStopsRun ==
  FetchFailed =>
    /\ "transform_data" \notin called
    /\ "load_data" \notin called
    /\ store = store_before
    /\ pc = "run_done" => run_ret = FALSE

\* C7: a run that fetched a non-empty batch without a fetch fault and met no
\* collection-level fault returns True, however many of its records failed to
\* transform or to upsert.
C7_RecordErrorsNeverFailRun ==
  (/\ pc = "run_done"
   /\ ~IsEmpty(raw_data)
   /\ ~FetchFailed
   /\ ~CollectionFault) => run_ret = TRUE

\* the value is a string that is not empty
NonEmpty(v) == v.t = "str" /\ Len(v.s) > 0

\* the presence checks the raw record satisfies
SatisfiedChecks(record) ==
  { f \in {"id", "ioc_value", "ioc_type", "threat_type", "malware", "first_seen"} :
      NonEmpty(record[f]) }
  \cup { f \in {"confidence_level"} : record[f].t = "int" /\ record[f].n > 0 }

\* the values one field of a record is changed to
ChangedValues ==
  {Absent, Null, EmptyStr, Str(<<" ">>), Str(<<"a">>), Num(-1), Num(0), Num(1)}

\* k/7 to two decimals, for k = 0..7, in hundredths
ScoreTable == <<0, 14, 29, 43, 57, 71, 86, 100>>

\* C11: the quality score of a raw record is k/7 rounded to 2 decimals, k being
\* the number of checks satisfied among non-empty id, ioc_value, ioc_type,
\* threat_type, malware, first_seen and confidence_level > 0; it is 0.0 when
\* every field is missing and 1.0 when all seven hold; satisfying one more
\* check never lowers it; the scoring raises on no record whose confidence is
\* absent or a number.
C11_QualityScore ==
  verdict.done =>
    LET k == Cardinality(SatisfiedChecks(sample)) IN
    /\ verdict.raised <=> sample["confidence_level"].t \notin {"absent", "int"}
    /\ ~verdict.raised =>
         /\ verdict.score = ScoreTable[k + 1]
         /\ 2 * (7 * verdict.score - 100 * k) <= 7
         /\ 2 * (100 * k - 7 * verdict.score) <= 7
         /\ sample = EmptyRaw => verdict.score = 0
         /\ k = 7 => verdict.score = 100
         /\ \A f \in RawFields, v \in ChangedValues :
              LET more == [sample EXCEPT ![f] = v] IN
              (/\ ~QualityRaises(more)
               /\ SatisfiedChecks(sample) \subseteq SatisfiedChecks(more))
              => CalculateThreatQuality(more) >= verdict.score

\* a record with an id and a blank IOC value only is scored 2/7, rounded up to 0.29
C11_Witness ==
  /\ verdict.done
  /\ ~verdict.raised
  /\ SatisfiedChecks(sample) = {"id", "ioc_value"}
  /\ sample["ioc_value"] = Str(<<" ">>)
  /\ verdict.score = 29

\* the characters from..to of the text are digits
DigitsAt(text, from, to) == \A i \in from..to : IsDigit(CharAt(text, i))

\* the number the digits from..to write
RECURSIVE NumberAt(_, _, _)
NumberAt(text, from, to) ==
  IF to < from THEN 0 ELSE 10 * NumberAt(text, from, to - 1) + DigitValue(text[to])

\* the text has the shape YYYY-MM-DD to the letter
StrictDate(text) ==
  /\ Len(text) = 10
  /\ DigitsAt(text, 1, 4) /\ text[5] = "-"
  /\ DigitsAt(text, 6, 7) /\ text[8] = "-"
  /\ DigitsAt(text, 9, 10)

\* the text has the shape YYYY-MM-DD HH:MM:SS to the letter
StrictDateTime(text) ==
  /\ Len(text) = 19
  /\ StrictDate(SubSeq(text, 1, 10)) /\ text[11] = " "
  /\ DigitsAt(text, 12, 13) /\ text[14] = ":"
  /\ DigitsAt(text, 15, 16) /\ text[17] = ":"
  /\ DigitsAt(text, 18, 19)

\* from..to holds a number of lo..hi written with one or two digits
Written(text, from, to, lo, hi) ==
  /\ to - from \in {0, 1}
  /\ to <= Len(text)
  /\ DigitsAt(text, from, to)
  /\ NumberAt(text, from, to) \in lo..hi

\* the day of the month exists
CalendarDay(year, month, day) ==
  /\ year >= 1
  /\ day <= 31
  /\ month \in {4, 6, 9, 11} => day <= 30
  /\ month = 2 => day <= 29
  /\ (month = 2 /\ day = 29) => (year % 4 = 0 /\ (year % 100 # 0 \/ year % 400 = 0))

\* the characters 1..to write a calendar date as year-month-day, the year with
\* four digits, month and day with or without a leading zero, a one-digit day
\* after a blank or not
LooseDateUpTo(text, to) ==
  /\ DigitsAt(text, 1, 4)
  /\ CharAt(text, 5) = "-"
  /\ \E month_end \in {6, 7} :
       /\ Written(text, 6, month_end, 1, 12)
       /\ CharAt(text, month_end + 1) = "-"
       /\ LET day_from == IF CharAt(text, month_end + 2) = " " /\ to = month_end + 3
                          THEN month_end + 3 ELSE month_end + 2
          IN /\ Written(text, day_from, to, 1, 31)
             /\ CalendarDay(NumberAt(text, 1, 4), NumberAt(text, 6, month_end),
                            NumberAt(text, day_from, to))

\* the text is such a date
LooseDate(text) == LooseDateUpTo(text, Len(text))

\* the text is such a date, whitespace, and a time of day as hour:minute:second,
\* each with or without a leading zero
LooseDateTime(text) ==
  \E date_end \in 8..Len(text), hour_from \in 10..Len(text) :
    /\ LooseDateUpTo(text, date_end)
    /\ hour_from > date_end + 1
    /\ \A i \in (date_end + 1)..(hour_from - 1) : IsSpace(text[i])
    /\ \E hour_end \in {hour_from, hour_from + 1} :
         /\ Written(text, hour_from, hour_end, 0, 23)
         /\ CharAt(text, hour_end + 1) = ":"
         /\ \E minute_end \in {hour_end + 2, hour_end + 3} :
              /\ Written(text, hour_end + 2, minute_end, 0, 59)
              /\ CharAt(text, minute_end + 1) = ":"
              /\ Written(text, minute_end + 2, Len(text), 0, 59)

\* but for its first_seen, every field of the raw record is absent or of the
\* type the feed gives it
WellFormed(record) ==
  /\ IsObject(record)
  /\ \A f \in StripFields \cup {"last_seen"} : record[f].t \in {"absent", "str"}
  /\ record["confidence_level"].t \in {"absent", "int"}
  /\ record["extraction_metadata"].t \in {"absent", "dict"}

\* the positions of the record in a sequence of raw records
Places(record, records) == { i \in 1..Len(records) : records[i] = record }

\* the record is not dropped, and each of its documents has the unknown date
\* fields
DegradesToUnknown(record) ==
  /\ Cardinality({ j \in 1..Len(docs) : docs[j].original_data = record })
       = Cardinality(Places(record, transform_in))
  /\ \A j \in 1..Len(docs) :
       docs[j].original_data = record =>
         /\ docs[j].first_seen = record["first_seen"]
         /\ docs[j].first_seen_parsed = Null
         /\ docs[j].is_recent_threat = FALSE
         /\ docs[j].days_since_first_seen = Null
         /\ docs[j].threat_age_category = "Unknown"

\* C12 as stated: when transform_data has returned, every raw record (otherwise
\* well-formed) whose first_seen string has neither the shape YYYY-MM-DD
\* HH:MM:SS nor the shape YYYY-MM-DD has its document, with first_seen_parsed
\* null, is_recent_threat false, days_since_first_seen null and
\* threat_age_category "Unknown".
C12_UnshapedDateDegrades ==
  pc = "transform_done" =>
    \A i \in 1..Len(transform_in) :
      LET record == transform_in[i] IN
      (/\ WellFormed(record)
       /\ record["first_seen"].t = "str"
       /\ ~StrictDateTime(record["first_seen"].s)
       /\ ~StrictDate(record["first_seen"].s))
      => DegradesToUnknown(record)

\* C12 amended: the same of every raw record whose first_seen string is neither
\* a calendar date nor a calendar date and a time of day in the formats as
\* strptime reads them: leading zeros of month, day, hour, minute and second
\* optional, a one-digit day after a blank allowed, any run of whitespace
\* between date and time.
C12_RejectedDateDegrades ==
  pc = "transform_done" =>
    \A i \in 1..Len(transform_in) :
      LET record == transform_in[i] IN
      (/\ WellFormed(record)
       /\ record["first_seen"].t = "str"
       /\ ~LooseDateTime(record["first_seen"].s)
       /\ ~LooseDate(record["first_seen"].s))
      => DegradesToUnknown(record)

\* a record dated in ISO style with a T was transformed to a document of
\* unknown age, and the record after it, dated five days ago, to a new threat
C12_Witness ==
  /\ pc = "transform_done"
  /\ Len(transform_in) = 2
  /\ transform_in[1] = [EmptyRaw EXCEPT !["first_seen"] = Str(<<"2","0","2","4","-","0","1","-","1","5","T","1","2",":","3","0",":","4","5">>)]
  /\ transform_in[2] = [EmptyRaw EXCEPT !["first_seen"] = Str(<<"2","0","2","4","-","0","3","-","0","5"," ","1","2",":","3","0",":","4","5">>)]
  /\ Len(docs) = 2
  /\ docs[1].first_seen_parsed = Null
  /\ docs[1].threat_age_category = "Unknown"
  /\ docs[1].is_recent_threat = FALSE
  /\ docs[1].days_since_first_seen = Null
  /\ docs[2].threat_age_category = "New"

\* the process of main() has ended
MainEnded == main_pc = "ended"

\* C13: when the process of a run started by main has ended, whatever the path
\* (success, connection failure, fetch failure, empty transform, load failure,
\* an exception in the pipeline), the cleanup step has not raised, and the
\* store connection and the HTTP session are not left open.
C13_MainReleasesResources ==
  MainEnded =>
    /\ cleanup = "done"
    /\ mongo_client # "open"
    /\ session # "open"

====
